---- MODULE Spec2Model ----
(***************************************************************************)
(* The two generator scripts of the repository:                            *)
(*   create_subagent.py   (context-master)  writes <out>/.claude/agents/   *)
(*                        <agent_name>.md and <agent_name>.json            *)
(*   generate_claude_md.py (context-solver) writes one CLAUDE.md           *)
(* Each invocation is a process that walks the statements of its function. *)
(* The filesystem is shared by all invocations; the registries are the     *)
(* module-level dictionaries of the scripts.                               *)
(*                                                                         *)
(* Representation.                                                         *)
(*   dict        a sequence of <<key, value>> pairs (insertion ordered)    *)
(*   dict value  [type |-> "str" | "list", s |-> string, l |-> Seq(string)]*)
(*   text        a sequence of lines, a line a sequence of strings         *)
(*   path        a sequence of segments, a segment <<stem, suffix>>        *)
(*   filesystem  [dirs |-> set of paths, files |-> [paths -> text]]        *)
(* A multi-line instructions body is carried as one opaque string (its     *)
(* first line); no code inspects it.                                       *)
(***************************************************************************)
EXTENDS Integers, Sequences, FiniteSets, TLC

\* ------------------------------------------------------------------ bounds
\* Total number of invocations started in one behaviour.
MaxRuns == 2

Procs == {1, 2}

\* ------------------------------------------------------------- dictionaries
Str(x) == [type |-> "str", s |-> x, l |-> <<>>]

List(x) == [type |-> "list", s |-> "", l |-> x]

RECURSIVE SeqToSet(_)
SeqToSet(q) == IF q = <<>> THEN {} ELSE {Head(q)} \cup SeqToSet(Tail(q))

\* dict.keys(): the keys in insertion order
DictKeys(d) == [i \in 1..Len(d) |-> d[i][1]]

\* key in dict
DictHas(d, k) == \E i \in 1..Len(d) : d[i][1] = k

\* dict[key]
DictGet(d, k) == d[CHOOSE i \in 1..Len(d) : d[i][1] = k][2]

\* dict[key] = value: an existing key keeps its position, a new key is appended
DictSet(d, k, v) ==
    IF DictHas(d, k)
    THEN [i \in 1..Len(d) |-> IF d[i][1] = k THEN <<k, v>> ELSE d[i]]
    ELSE Append(d, <<k, v>>)

\* ', '.join(keys) as the sequence of its pieces
RECURSIVE Join(_, _)
Join(sep, q) ==
    IF q = <<>> THEN <<>>
    ELSE IF Len(q) = 1 THEN <<q[1]>>
    ELSE <<q[1], sep>> \o Join(sep, Tail(q))

\* ---------------------------------------------------------------- registries
SubagentTemplatesInit ==
    << <<"researcher", <<
          <<"name", Str("{agent_name}")>>,
          <<"description", Str("Research and documentation lookup agent with deep analysis")>>,
          <<"instructions", Str("You are a research specialist. Your job is to:")>>,
          <<"tools", List(<<"read", "search", "web_search">>)>>,
          <<"autonomy", Str("medium")>> >> >>,
       <<"tester", <<
          <<"name", Str("{agent_name}")>>,
          <<"description", Str("Testing and validation agent with analysis")>>,
          <<"instructions", Str("You are a testing specialist. Your job is to:")>>,
          <<"tools", List(<<"bash", "read", "write">>)>>,
          <<"autonomy", Str("high")>> >> >>,
       <<"analyzer", <<
          <<"name", Str("{agent_name}")>>,
          <<"description", Str("Code analysis and deep architectural insight agent")>>,
          <<"instructions", Str("You are a code analysis specialist. Your job is to:")>>,
          <<"tools", List(<<"read", "search", "bash">>)>>,
          <<"autonomy", Str("medium")>> >> >>,
       <<"builder", <<
          <<"name", Str("{agent_name}")>>,
          <<"description", Str("Build and deployment agent")>>,
          <<"instructions", Str("You are a build specialist. Your job is to:")>>,
          <<"tools", List(<<"bash", "read">>)>>,
          <<"autonomy", Str("high")>> >> >>,
       <<"deep_analyzer", <<
          <<"name", Str("{agent_name}")>>,
          <<"description", Str("Deep analysis agent with mandatory extended thinking")>>,
          <<"instructions", Str("You are a deep analysis specialist. Your PRIMARY function is to think deeply before responding.")>>,
          <<"tools", List(<<"read", "search", "bash", "web_search">>)>>,
          <<"autonomy", Str("high")>> >> >> >>

\* mutant: the table lacks the "high" entry
AutonomyDescriptionsNoHigh ==
    << <<"low", "Ask for confirmation before taking actions. Provide recommendations.">>,
       <<"medium", "Take standard actions autonomously. Ask for confirmation on significant changes.">> >>

AutonomyDescriptionsInit ==
    << <<"low", "Ask for confirmation before taking actions. Provide recommendations.">>,
       <<"medium", "Take standard actions autonomously. Ask for confirmation on significant changes.">>,
       <<"high", "Execute tasks fully autonomously. Report results when complete.">> >>

\* Each template is a static text; it is carried as its title line and an
\* opaque body.
TemplatesInit ==
    << <<"general",   << <<"# Claude Code Configuration">>, <<"body:general">> >> >>,
       <<"backend",   << <<"# Claude Code Configuration - Backend Project">>, <<"body:backend">> >> >>,
       <<"frontend",  << <<"# Claude Code Configuration - Frontend Project">>, <<"body:frontend">> >> >>,
       <<"fullstack", << <<"# Claude Code Configuration - Full-Stack Project">>, <<"body:fullstack">> >> >>,
       <<"data",      << <<"# Claude Code Configuration - Data Science Project">>, <<"body:data">> >> >>,
       <<"library",   << <<"# Claude Code Configuration - Library Project">>, <<"body:library">> >> >> >>

\* ---------------------------------------------------------------- rendering
\* "\n".join(f"- {tool}" for tool in tools): one line per tool
tools_list(tools) == [i \in 1..Len(tools) |-> <<"- ", tools[i]>>]

\* CLAUDE_CODE_FORMAT.format(...)
CLAUDE_CODE_FORMAT(agent_name, description, instructions, tools, autonomy_description) ==
    << <<"# ", agent_name>>, <<>>,
       <<description>>, <<>>,
       <<"## Instructions">>, <<>>,
       <<instructions>>, <<>>,
       <<"## Allowed Tools">>, <<>> >>
    \o tools
    \o << <<>>, <<"## Autonomy Level">>, <<>>, <<autonomy_description>> >>

\* json.dumps(d, indent=2): one line per scalar member, a list spread over
\* an opening line, one line per item and a closing line
RECURSIVE json_members(_)
json_members(d) ==
    IF d = <<>> THEN <<>>
    ELSE LET k == d[1][1]
             v == d[1][2]
             this == IF v.type = "str"
                     THEN << <<"  ", k, ": ", v.s>> >>
                     ELSE << <<"  ", k, ": [">> >>
                          \o [i \in 1..Len(v.l) |-> <<"    ", v.l[i]>>]
                          \o << <<"  ]">> >>
         IN this \o json_members(Tail(d))

json_dumps(d) == << <<"{">> >> \o json_members(d) \o << <<"}">> >>

\* json.loads: the text back to a dict; a text that is no object parses to <<>>
RECURSIVE json_parse(_, _, _)
json_parse(lines, acc, open) ==
    IF lines = <<>> THEN acc
    ELSE LET ln == Head(lines) IN
         IF Len(ln) = 4 /\ ln[1] = "  " /\ ln[3] = ": "
         THEN json_parse(Tail(lines), Append(acc, <<ln[2], Str(ln[4])>>), "")
         ELSE IF Len(ln) = 3 /\ ln[1] = "  " /\ ln[3] = ": ["
         THEN json_parse(Tail(lines), Append(acc, <<ln[2], List(<<>>)>>), ln[2])
         ELSE IF Len(ln) = 2 /\ ln[1] = "    " /\ open # ""
         THEN json_parse(Tail(lines),
                         DictSet(acc, open, List(Append(DictGet(acc, open).l, ln[2]))),
                         open)
         ELSE json_parse(Tail(lines), acc, "")

json_loads(text) ==
    IF Len(text) >= 2 /\ text[1] = <<"{">> /\ text[Len(text)] = <<"}">>
    THEN json_parse(SubSeq(text, 2, Len(text) - 1), <<>>, "")
    ELSE <<>>

\* ---------------------------------------------------------------- filesystem
Seg(stem) == <<stem, "">>

Parent(p) == SubSeq(p, 1, Len(p) - 1)

\* the working directory <<>> always exists
IsDir(f, p) == p = <<>> \/ p \in f.dirs

IsFile(f, p) == p \in DOMAIN f.files

\* some proper ancestor of p is a regular file
FileAncestor(f, p) == \E i \in 1..(Len(p) - 1) : IsFile(f, SubSeq(p, 1, i))

Ok(f) == [ok |-> TRUE, err |-> "", fs |-> f]

Fail(e, f) == [ok |-> FALSE, err |-> e, fs |-> f]

PutFile(f, p, text) ==
    [f EXCEPT !.files = [q \in DOMAIN f.files \cup {p} |->
                            IF q = p THEN text ELSE f.files[q]]]

\* os.mkdir(p)
os_mkdir(f, p) ==
    IF IsDir(f, p) \/ IsFile(f, p) THEN Fail("FileExistsError", f)
    ELSE IF FileAncestor(f, p) THEN Fail("NotADirectoryError", f)
    ELSE IF ~IsDir(f, Parent(p)) THEN Fail("FileNotFoundError", f)
    ELSE Ok([f EXCEPT !.dirs = @ \cup {p}])

\* pathlib.Path.mkdir(parents, exist_ok)
RECURSIVE Path_mkdir(_, _, _, _)
Path_mkdir(f, p, parents, exist_ok) ==
    LET r == os_mkdir(f, p) IN
    IF r.ok THEN r
    ELSE IF r.err = "FileNotFoundError"
    THEN IF ~parents \/ p = <<>> THEN r
         ELSE LET up == Path_mkdir(f, Parent(p), TRUE, TRUE) IN
              IF ~up.ok THEN up ELSE Path_mkdir(up.fs, p, FALSE, exist_ok)
    ELSE IF ~exist_ok \/ ~IsDir(f, p) THEN r
    ELSE Ok(f)

\* mutant: mkdir(exist_ok=True) without parents=True
mkdir_no_parents(f, p) == Path_mkdir(f, p, FALSE, TRUE)

\* the call both scripts make: mkdir(parents=True, exist_ok=True)
mkdir_p(f, p) == Path_mkdir(f, p, TRUE, TRUE)

\* mutant: the file is opened without being truncated
open_no_truncate(f, p) ==
    IF IsDir(f, p) THEN Fail("IsADirectoryError", f)
    ELSE IF FileAncestor(f, p) THEN Fail("NotADirectoryError", f)
    ELSE IF ~IsDir(f, Parent(p)) THEN Fail("FileNotFoundError", f)
    ELSE Ok(PutFile(f, p, IF IsFile(f, p) THEN f.files[p] ELSE <<>>))

\* Path.write_text, first half: open(p, "w") creates or truncates the file
open_w(f, p) ==
    IF IsDir(f, p) THEN Fail("IsADirectoryError", f)
    ELSE IF FileAncestor(f, p) THEN Fail("NotADirectoryError", f)
    ELSE IF ~IsDir(f, Parent(p)) THEN Fail("FileNotFoundError", f)
    ELSE Ok(PutFile(f, p, <<>>))

\* Path.write_text, second half: the text goes out at offset 0 of the open
\* file; what another writer put beyond its end stays
write_data(f, p, text) ==
    LET old == f.files[p] IN
    PutFile(f, p, text \o SubSeq(old, Len(text) + 1, Len(old)))

\* -------------------------------------------------------------------- inputs
AgentTypeInputs == {"researcher", "tester", "analyzer", "builder", "deep_analyzer", "bogus"}

ProjectTypeInputs == {"general", "backend", "frontend", "fullstack", "data", "library", "bogus"}

NestedDir == <<Seg("o"), Seg("p")>>

NestedPath == <<Seg("o"), Seg("p"), Seg("CLAUDE.md")>>

\* the arguments tried: every type key and an unknown one with a plain name
\* in a nested directory, then a name with a separator
CsArgs ==
    [name : {"a"}, type : AgentTypeInputs, out : {NestedDir}]
    \cup [name : {"d/n"}, type : {"researcher"}, out : {NestedDir}]

\* every type key and an unknown one at a nested path, then the default path
GenArgs ==
    [name : {""}, type : ProjectTypeInputs, out : {NestedPath}]
    \cup [name : {""}, type : {"general"}, out : { <<Seg("CLAUDE.md")>> }]

\* the segments pathlib makes of a name joined to a directory
NameParts(name) == IF name = "d/n" THEN <<"d", "n">> ELSE <<name>>

\* dir / f"{name}{suffix}"
JoinFile(dir, name, suffix) ==
    LET parts == NameParts(name) IN
    dir \o [i \in 1..Len(parts) |->
               IF i = Len(parts) THEN <<parts[i], suffix>> ELSE Seg(parts[i])]

\* output_path / ".claude" / "agents"
AgentsDir(output_dir) == output_dir \o <<Seg(".claude"), Seg("agents")>>

AgentFile(a) == JoinFile(AgentsDir(a.out), a.name, ".md")

JsonFile(a) == JoinFile(AgentsDir(a.out), a.name, ".json")

\* what was on disk before any invocation
OldText == [i \in 1..20 |-> <<"old">>]

EmptyFs == [dirs |-> {}, files |-> [q \in {} |-> <<>>]]

PopulatedFs ==
    [dirs  |-> { <<Seg("o")>>, <<Seg("o"), Seg("p")>>,
                 <<Seg("o"), Seg("p"), Seg(".claude")>>,
                 <<Seg("o"), Seg("p"), Seg(".claude"), Seg("agents")>> },
     files |-> [q \in { <<Seg("CLAUDE.md")>>, NestedPath,
                        <<Seg("o"), Seg("p"), Seg(".claude"), Seg("agents"), <<"a", ".md">> >>,
                        <<Seg("o"), Seg("p"), Seg(".claude"), Seg("agents"), <<"a", ".json">> >> }
                  |-> OldText]]

\* a regular file sits where a directory is wanted
BlockedFs ==
    [dirs  |-> { <<Seg("o")>> },
     files |-> [q \in { <<Seg("o"), Seg("p")>> } |-> OldText]]

InitialFilesystems == {EmptyFs, PopulatedFs, BlockedFs}

\* --------------------------------------------------------------------- state
VARIABLES
    SUBAGENT_TEMPLATES,     \* create_subagent.py: the agent type registry
    AUTONOMY_DESCRIPTIONS,  \* create_subagent.py: autonomy -> description
    TEMPLATES,              \* generate_claude_md.py: the project type registry
    fs,                     \* the filesystem
    pc,                     \* per invocation: the statement it is at
    script,                 \* per invocation: which function runs
    args,                   \* per invocation: its arguments
    template,               \* create_subagent's local `template`
    content,                \* the local holding the text about to be written
    err,                    \* the exception an invocation ended with
    stdout,                 \* what an invocation printed
    hist,                   \* per invocation, for stating properties: the
                            \*   events so far (log), whether no other
                            \*   invocation ran during it (alone) and, as
                            \*   long as none did, the filesystem at its
                            \*   start (fs0) and at its end (fs1) and the run
                            \*   that ended just before it (prev)
    last,                   \* the run that ended most recently
    runs                    \* invocations started so far

vars == <<SUBAGENT_TEMPLATES, AUTONOMY_DESCRIPTIONS, TEMPLATES, fs, pc, script,
          args, template, content, err, stdout, hist, last, runs>>

registries == <<SUBAGENT_TEMPLATES, AUTONOMY_DESCRIPTIONS, TEMPLATES>>

NoArgs == [name |-> "", type |-> "", out |-> <<>>]

NoTemplate == [d |-> <<>>, shared |-> FALSE]

NoErr == [type |-> "", msg |-> <<>>]

NoRun == [script |-> "none", args |-> NoArgs, ok |-> FALSE, alone |-> FALSE]

NoHist == [log |-> <<>>, alone |-> FALSE, fs0 |-> EmptyFs, fs1 |-> EmptyFs,
           prev |-> NoRun]

Ended(q) == pc[q] \in {"done", "raised"}

Active(q) == pc[q] \notin {"idle", "done", "raised"}

Init ==
    /\ SUBAGENT_TEMPLATES = SubagentTemplatesInit
    /\ AUTONOMY_DESCRIPTIONS = AutonomyDescriptionsInit
    /\ TEMPLATES = TemplatesInit
    /\ fs \in InitialFilesystems
    /\ pc = [p \in Procs |-> "idle"]
    /\ script = [p \in Procs |-> "none"]
    /\ args = [p \in Procs |-> NoArgs]
    /\ template = [p \in Procs |-> NoTemplate]
    /\ content = [p \in Procs |-> <<>>]
    /\ err = [p \in Procs |-> NoErr]
    /\ stdout = [p \in Procs |-> <<>>]
    /\ hist = [p \in Procs |-> NoHist]
    /\ last = NoRun
    /\ runs = 0

\* ------------------------------------------------------------ process steps
\* how a step leaves the invocation: at its next statement, ended by an
\* uncaught exception, or returned
GoOn(label) == [kind |-> "goto", label |-> label, type |-> "", msg |-> <<>>]

Raised(type, msg) == [kind |-> "raise", label |-> "raised", type |-> type, msg |-> msg]

Returned == [kind |-> "return", label |-> "done", type |-> "", msg |-> <<>>]

\* a filesystem call's outcome: go on, or end with the OSError it raised
AfterCall(r, label) == IF r.ok THEN GoOn(label) ELSE Raised(r.err, <<>>)

\* the log name of a mkdir call: whether it made a directory
MkdirEvent(r) == IF r.ok /\ r.fs # fs THEN "mkdir" ELSE "mkdir_noop"

\* one step of invocation p: it leaves the filesystem as f, did `events`, and
\* goes on as `o` says
Step(p, events, f, o) ==
    /\ fs' = f
    /\ pc' = [pc EXCEPT ![p] = o.label]
    /\ err' = IF o.kind = "raise"
              THEN [err EXCEPT ![p] = [type |-> o.type, msg |-> o.msg]]
              ELSE err
    /\ last' = IF o.kind = "goto" THEN last
               ELSE [script |-> script[p], args |-> args[p],
                     ok |-> o.kind = "return", alone |-> hist[p].alone]
    /\ hist' = [hist EXCEPT ![p].log = @ \o events,
                            ![p].fs1 = IF o.kind # "goto" /\ hist[p].alone THEN f ELSE @]

\* main(): a script is invoked with its parsed arguments.  The invocation
\* takes the first process that runs nothing; the processes of invocations
\* that have ended go away.
Start(p, s, a) ==
    /\ ~Active(p)
    /\ \A q \in Procs : q < p => Active(q)
    /\ runs < MaxRuns
    /\ runs' = runs + 1
    /\ pc' = [q \in Procs |->
                 IF q = p THEN (IF s = "create_subagent" THEN "cs_validate" ELSE "gen_validate")
                 ELSE IF Active(q) THEN pc[q] ELSE "idle"]
    /\ script' = [q \in Procs |-> IF q = p THEN s ELSE IF Active(q) THEN script[q] ELSE "none"]
    /\ args' = [q \in Procs |-> IF q = p THEN a ELSE IF Active(q) THEN args[q] ELSE NoArgs]
    /\ hist' = [q \in Procs |->
                 IF q = p
                 THEN IF \A o \in Procs \ {p} : ~Active(o)
                      THEN [NoHist EXCEPT !.alone = TRUE, !.fs0 = fs, !.prev = last]
                      ELSE NoHist
                 ELSE IF Active(q) THEN [NoHist EXCEPT !.log = hist[q].log]
                 ELSE NoHist]
    /\ template' = [q \in Procs |-> IF q # p /\ Active(q) THEN template[q] ELSE NoTemplate]
    /\ content' = [q \in Procs |-> IF q # p /\ Active(q) THEN content[q] ELSE <<>>]
    /\ err' = [q \in Procs |-> IF q # p /\ Active(q) THEN err[q] ELSE NoErr]
    /\ stdout' = [q \in Procs |-> IF q # p /\ Active(q) THEN stdout[q] ELSE <<>>]
    /\ UNCHANGED <<registries, fs, last>>

\* ------------------------------------------------------ create_subagent.py
\* mutant: the message leaves out the last key
unknown_agent_type_short(agent_type, registry) ==
    <<"Unknown agent type: ", agent_type, ". ", "Choose from: ">>
    \o Join(", ", SubSeq(DictKeys(registry), 1, Len(registry) - 1))

\* the ValueError text: f"Unknown agent type: {agent_type}. Choose from: ..."
unknown_agent_type(agent_type, registry) ==
    <<"Unknown agent type: ", agent_type, ". ", "Choose from: ">>
    \o Join(", ", DictKeys(registry))

\* mutant: SUBAGENT_TEMPLATES[agent_type] without .copy(): `template` is the
\* registry's own dict
dict_alias(d) == [d |-> d, shared |-> TRUE]

\* SUBAGENT_TEMPLATES[agent_type].copy(): a new dict, bound to `template`
dict_copy(d) == [d |-> d, shared |-> FALSE]

\* mutant: the name is not assigned
set_name_skipped(d, agent_name) == d

\* template["name"] = agent_name
set_name(d, agent_name) == DictSet(d, "name", Str(agent_name))

\* the text create_subagent formats from its template and the autonomy table
render_agent(agent_name, d, autonomy_descriptions) ==
    CLAUDE_CODE_FORMAT(agent_name,
                       DictGet(d, "description").s,
                       DictGet(d, "instructions").s,
                       tools_list(DictGet(d, "tools").l),
                       DictGet(autonomy_descriptions, DictGet(d, "autonomy").s))

\* the status lines create_subagent prints
CsStatus(a) ==
    << <<"Created subagent: ", a.name>>,
       <<"   Type: ", a.type>>,
       <<"   Location: ">> \o AgentFile(a) >>

\* mutant: the output directory is made before the type is checked
CsValidate_MkdirFirst(p) ==
    /\ pc[p] = "cs_validate"
    /\ LET r == mkdir_p(fs, args[p].out)
       IN IF ~r.ok
          THEN /\ Step(p, <<MkdirEvent(r)>>, r.fs, Raised(r.err, <<>>))
               /\ UNCHANGED <<SUBAGENT_TEMPLATES, template>>
          ELSE IF DictHas(SUBAGENT_TEMPLATES, args[p].type)
          THEN LET t == dict_copy(DictGet(SUBAGENT_TEMPLATES, args[p].type))
                   d == set_name(t.d, args[p].name)
               IN /\ template' = [template EXCEPT ![p] = [t EXCEPT !.d = d]]
                  /\ SUBAGENT_TEMPLATES' = SUBAGENT_TEMPLATES
                  /\ Step(p, <<MkdirEvent(r), "validate">>, r.fs, GoOn("cs_mkdir_output"))
          ELSE /\ Step(p, <<MkdirEvent(r), "validate">>, r.fs,
                       Raised("ValueError",
                              unknown_agent_type(args[p].type, SUBAGENT_TEMPLATES)))
               /\ UNCHANGED <<SUBAGENT_TEMPLATES, template>>
    /\ UNCHANGED <<AUTONOMY_DESCRIPTIONS, TEMPLATES, script, args, content,
                   stdout, runs>>

\* if agent_type not in SUBAGENT_TEMPLATES: raise ValueError(...)
\* template = SUBAGENT_TEMPLATES[agent_type].copy(); template["name"] = agent_name
\* An assignment through `template` reaches the registry's own dict exactly
\* when `template` is bound to it.
CsValidate(p) ==
    /\ pc[p] = "cs_validate"
    /\ IF DictHas(SUBAGENT_TEMPLATES, args[p].type)
       THEN LET t == dict_copy(DictGet(SUBAGENT_TEMPLATES, args[p].type))
                d == set_name(t.d, args[p].name)
            IN /\ template' = [template EXCEPT ![p] = [t EXCEPT !.d = d]]
               /\ SUBAGENT_TEMPLATES' =
                     IF t.shared THEN DictSet(SUBAGENT_TEMPLATES, args[p].type, d)
                     ELSE SUBAGENT_TEMPLATES
               /\ Step(p, <<"validate">>, fs, GoOn("cs_mkdir_output"))
       ELSE /\ Step(p, <<"validate">>, fs,
                    Raised("ValueError",
                           unknown_agent_type(args[p].type, SUBAGENT_TEMPLATES)))
            /\ UNCHANGED <<SUBAGENT_TEMPLATES, template>>
    /\ UNCHANGED <<AUTONOMY_DESCRIPTIONS, TEMPLATES, script, args, content,
                   stdout, runs>>

\* output_path.mkdir(parents=True, exist_ok=True)
CsMkdirOutput(p) ==
    /\ pc[p] = "cs_mkdir_output"
    /\ LET r == mkdir_p(fs, args[p].out)
       IN Step(p, <<MkdirEvent(r)>>, r.fs, AfterCall(r, "cs_mkdir_agents"))
    /\ UNCHANGED <<registries, script, args, template, content, stdout, runs>>

\* agents_dir.mkdir(parents=True, exist_ok=True), then
\* tools_list, autonomy_desc, content = CLAUDE_CODE_FORMAT.format(...)
CsMkdirAgents(p) ==
    /\ pc[p] = "cs_mkdir_agents"
    /\ LET r == mkdir_p(fs, AgentsDir(args[p].out))
           d == template[p].d
       IN IF ~r.ok
          THEN /\ Step(p, <<MkdirEvent(r)>>, r.fs, Raised(r.err, <<>>))
               /\ content' = content
          ELSE IF ~DictHas(AUTONOMY_DESCRIPTIONS, DictGet(d, "autonomy").s)
          THEN /\ Step(p, <<MkdirEvent(r)>>, r.fs,
                       Raised("KeyError", <<DictGet(d, "autonomy").s>>))
               /\ content' = content
          ELSE /\ Step(p, <<MkdirEvent(r), "render">>, r.fs, GoOn("cs_open_md"))
               /\ content' = [content EXCEPT ![p] =
                     render_agent(args[p].name, d, AUTONOMY_DESCRIPTIONS)]
    /\ UNCHANGED <<registries, script, args, template, stdout, runs>>

\* agent_file.write_text(content): the file is opened for writing
CsOpenMd(p) ==
    /\ pc[p] = "cs_open_md"
    /\ LET r == open_w(fs, AgentFile(args[p]))
       IN Step(p, <<"open">>, r.fs, AfterCall(r, "cs_write_md"))
    /\ UNCHANGED <<registries, script, args, template, content, stdout, runs>>

\* mutant: the status is printed once the .md is written, before the .json
CsWriteMd_PrintEarly(p) ==
    /\ pc[p] = "cs_write_md"
    /\ stdout' = [stdout EXCEPT ![p] = CsStatus(args[p])]
    /\ Step(p, <<"write", "print">>, write_data(fs, AgentFile(args[p]), content[p]),
            GoOn("cs_open_json"))
    /\ UNCHANGED <<registries, script, args, template, content, runs>>

\* agent_file.write_text(content): the text is written and the file closed
CsWriteMd(p) ==
    /\ pc[p] = "cs_write_md"
    /\ Step(p, <<"write">>, write_data(fs, AgentFile(args[p]), content[p]),
            GoOn("cs_open_json"))
    /\ UNCHANGED <<registries, script, args, template, content, stdout, runs>>

\* mutant: the new JSON is added to what the file already holds
CsOpenJson_Merge(p) ==
    /\ pc[p] = "cs_open_json"
    /\ content' = [content EXCEPT ![p] =
          (IF IsFile(fs, JsonFile(args[p])) THEN fs.files[JsonFile(args[p])] ELSE <<>>)
          \o json_dumps(template[p].d)]
    /\ LET r == open_w(fs, JsonFile(args[p]))
       IN Step(p, <<"render", "open">>, r.fs, AfterCall(r, "cs_write_json"))
    /\ UNCHANGED <<registries, script, args, template, stdout, runs>>

\* mutant: the .json is written from the registry's record, not from `template`
CsOpenJson_Registry(p) ==
    /\ pc[p] = "cs_open_json"
    /\ content' = [content EXCEPT ![p] =
          json_dumps(DictGet(SUBAGENT_TEMPLATES, "researcher"))]
    /\ LET r == open_w(fs, JsonFile(args[p]))
       IN Step(p, <<"render", "open">>, r.fs, AfterCall(r, "cs_write_json"))
    /\ UNCHANGED <<registries, script, args, template, stdout, runs>>

\* json_file.write_text(json.dumps(template, indent=2)): the argument is
\* evaluated, then the file is opened for writing
CsOpenJson(p) ==
    /\ pc[p] = "cs_open_json"
    /\ content' = [content EXCEPT ![p] = json_dumps(template[p].d)]
    /\ LET r == open_w(fs, JsonFile(args[p]))
       IN Step(p, <<"render", "open">>, r.fs, AfterCall(r, "cs_write_json"))
    /\ UNCHANGED <<registries, script, args, template, stdout, runs>>

\* json_file.write_text(...): the text is written and the file closed; then
\* the print calls, and the function returns
CsWriteJson(p) ==
    /\ pc[p] = "cs_write_json"
    /\ stdout' = [stdout EXCEPT ![p] = CsStatus(args[p])]
    /\ Step(p, <<"write", "print">>,
            write_data(fs, JsonFile(args[p]), content[p]), Returned)
    /\ UNCHANGED <<registries, script, args, template, content, runs>>

\* ---------------------------------------------------- generate_claude_md.py
\* the ValueError text: f"Unknown project type: {project_type}. Choose from: ..."
unknown_project_type(project_type, registry) ==
    <<"Unknown project type: ", project_type, ". ", "Choose from: ">>
    \o Join(", ", DictKeys(registry))

\* the status lines generate_claude_md prints
GenStatus(a) ==
    << <<"Generated CLAUDE.md at ">> \o a.out,
       <<"   Template: ", a.type>> >>

\* if project_type not in TEMPLATES: raise ValueError(...)
\* content = TEMPLATES[project_type]
GenValidate(p) ==
    /\ pc[p] = "gen_validate"
    /\ IF DictHas(TEMPLATES, args[p].type)
       THEN /\ content' = [content EXCEPT ![p] = DictGet(TEMPLATES, args[p].type)]
            /\ Step(p, <<"validate", "render">>, fs, GoOn("gen_mkdir"))
       ELSE /\ content' = content
            /\ Step(p, <<"validate">>, fs,
                    Raised("ValueError",
                           unknown_project_type(args[p].type, TEMPLATES)))
    /\ UNCHANGED <<registries, script, args, template, stdout, runs>>

\* output_file.parent.mkdir(parents=True, exist_ok=True)
GenMkdir(p) ==
    /\ pc[p] = "gen_mkdir"
    /\ LET r == mkdir_p(fs, Parent(args[p].out))
       IN Step(p, <<MkdirEvent(r)>>, r.fs, AfterCall(r, "gen_open"))
    /\ UNCHANGED <<registries, script, args, template, content, stdout, runs>>

\* output_file.write_text(content): the file is opened for writing
GenOpen(p) ==
    /\ pc[p] = "gen_open"
    /\ LET r == open_w(fs, args[p].out)
       IN Step(p, <<"open">>, r.fs, AfterCall(r, "gen_write"))
    /\ UNCHANGED <<registries, script, args, template, content, stdout, runs>>

\* output_file.write_text(content): the text is written and the file closed;
\* then the print calls, and the function returns
GenWrite(p) ==
    /\ pc[p] = "gen_write"
    /\ stdout' = [stdout EXCEPT ![p] = GenStatus(args[p])]
    /\ Step(p, <<"write", "print">>, write_data(fs, args[p].out, content[p]), Returned)
    /\ UNCHANGED <<registries, script, args, template, content, runs>>

\* ------------------------------------------------------------- specification
Next ==
    \E p \in Procs :
        \/ \E a \in CsArgs : Start(p, "create_subagent", a)
        \/ \E a \in GenArgs : Start(p, "generate_claude_md", a)
        \/ CsValidate(p)
        \/ CsMkdirOutput(p)
        \/ CsMkdirAgents(p)
        \/ CsOpenMd(p)
        \/ CsWriteMd(p)
        \/ CsOpenJson(p)
        \/ CsWriteJson(p)
        \/ GenValidate(p)
        \/ GenMkdir(p)
        \/ GenOpen(p)
        \/ GenWrite(p)

Spec == Init /\ [][Next]_vars

\* ================================================================ properties
IsCs(p) == script[p] = "create_subagent"

IsGen(p) == script[p] = "generate_claude_md"

AgentTypeKeys == {"researcher", "tester", "analyzer", "builder", "deep_analyzer"}

ProjectTypeKeys == {"general", "backend", "frontend", "fullstack", "data", "library"}

ValidType(p) ==
    \/ IsCs(p) /\ args[p].type \in AgentTypeKeys
    \/ IsGen(p) /\ args[p].type \in ProjectTypeKeys

\* the text of file q in filesystem f; a missing file has none
TextOf(f, q) == IF q \in DOMAIN f.files THEN f.files[q] ELSE << <<"<no file>">> >>

\* what a run of create_subagent with arguments a is to leave in its files
ExpectedTemplate(a) == set_name(DictGet(SubagentTemplatesInit, a.type), a.name)

ExpectedMd(a) == render_agent(a.name, ExpectedTemplate(a), AutonomyDescriptionsInit)

ExpectedJson(a) == json_dumps(ExpectedTemplate(a))

\* ------------------------------------------------------------------------ C1
\* C1: an invocation of either script whose type is no key of its registry
\* ends with the ValueError at its first step, having made no filesystem call;
\* when no other invocation ran meanwhile, the filesystem at that moment is
\* the filesystem of the moment it started: no directory was made, no file
\* was made or overwritten.
C1_InvalidTypeLeavesFilesystem ==
    \A p \in Procs :
        (script[p] # "none" /\ ~ValidType(p) /\ pc[p] \notin {"cs_validate", "gen_validate"})
        => /\ pc[p] = "raised"
           /\ err[p].type = "ValueError"
           /\ hist[p].log = <<"validate">>
           /\ hist[p].alone => hist[p].fs1 = hist[p].fs0

\* both scripts have refused an unknown type, one after the other, on a
\* filesystem that holds files
C1_Witness ==
    \E q \in Procs :
        /\ IsGen(q) /\ ~ValidType(q) /\ pc[q] = "raised" /\ hist[q].alone
        /\ hist[q].prev.script = "create_subagent"
        /\ hist[q].prev.args.type = "bogus" /\ hist[q].prev.alone
        /\ hist[q].fs1 = hist[q].fs0
        /\ hist[q].fs0 = PopulatedFs

\* ------------------------------------------------------------------------ C2
\* the keys an error message lists after "Choose from: "
ListedKeys(msg) ==
    LET i == CHOOSE j \in 1..Len(msg) : msg[j] = "Choose from: "
    IN SeqToSet(SubSeq(msg, i + 1, Len(msg))) \ {", "}

\* C2: the ValueError raised for an unknown type lists every key of the
\* script's registry: the 5 agent types, the 6 project types.
C2_ErrorListsEveryKey ==
    \A p \in Procs :
        (pc[p] = "raised" /\ err[p].type = "ValueError")
        => /\ IsCs(p) => ListedKeys(err[p].msg) = AgentTypeKeys
           /\ IsGen(p) => ListedKeys(err[p].msg) = ProjectTypeKeys
           /\ err[p].msg[2] = args[p].type

C2_Witness ==
    \E p, q \in Procs :
        /\ IsCs(p) /\ IsGen(q)
        /\ err[p].type = "ValueError" /\ err[q].type = "ValueError"
        /\ Cardinality(ListedKeys(err[p].msg)) = 5
        /\ Cardinality(ListedKeys(err[q].msg)) = 6

\* ------------------------------------------------------------------------ C3
\* p is the second of two runs of create_subagent with the same arguments,
\* one after the other with no other invocation during or between them
SecondOfTwo(p) ==
    /\ IsCs(p) /\ Ended(p) /\ hist[p].alone
    /\ ValidType(p)
    /\ hist[p].prev.script = "create_subagent"
    /\ hist[p].prev.alone
    /\ hist[p].prev.args = args[p]

\* C3: when create_subagent has run twice in succession with the same
\* arguments, the .md and the .json hold after the second run what they held
\* after the first (fs0 of the second run is the filesystem the first left),
\* and so does the rest of the filesystem.
C3_Idempotent ==
    \A p \in Procs :
        SecondOfTwo(p)
        => /\ TextOf(hist[p].fs1, AgentFile(args[p])) = TextOf(hist[p].fs0, AgentFile(args[p]))
           /\ TextOf(hist[p].fs1, JsonFile(args[p])) = TextOf(hist[p].fs0, JsonFile(args[p]))
           /\ hist[p].fs1 = hist[p].fs0

\* the two runs happened on a filesystem that held other text in both files
C3_Witness ==
    \E p \in Procs :
        /\ SecondOfTwo(p) /\ pc[p] = "done"
        /\ AgentFile(args[p]) \in DOMAIN PopulatedFs.files
        /\ TextOf(hist[p].fs1, <<Seg("CLAUDE.md")>>) = OldText
        /\ TextOf(hist[p].fs1, AgentFile(args[p])) = ExpectedMd(args[p])
        /\ TextOf(hist[p].fs1, JsonFile(args[p])) = ExpectedJson(args[p])

\* ------------------------------------------------------------------------ C4
\* C4: the .json a run of create_subagent leaves, parsed, is the registry
\* record of its type with the name replaced by agent_name: same keys in the
\* same order, name = agent_name, tools and every other member as in the
\* registry.
C4_JsonIsRecordWithName ==
    \A p \in Procs :
        (IsCs(p) /\ pc[p] = "done" /\ hist[p].alone)
        => LET j == json_loads(TextOf(hist[p].fs1, JsonFile(args[p])))
               r == DictGet(SubagentTemplatesInit, args[p].type)
           IN /\ DictKeys(j) = <<"name", "description", "instructions", "tools", "autonomy">>
              /\ DictGet(j, "name") = Str(args[p].name)
              /\ DictGet(j, "name") # Str("{agent_name}")
              /\ DictGet(j, "tools") = DictGet(r, "tools")
              /\ \A k \in {"description", "instructions", "autonomy"} :
                    DictGet(j, k) = DictGet(r, k)

C4_Witness ==
    \E p \in Procs :
        /\ IsCs(p) /\ pc[p] = "done" /\ hist[p].alone
        /\ args[p].type = "deep_analyzer"
        /\ DictGet(json_loads(TextOf(hist[p].fs1, JsonFile(args[p]))), "tools")
              = List(<<"read", "search", "bash", "web_search">>)
        /\ DictGet(json_loads(TextOf(hist[p].fs1, JsonFile(args[p]))), "name") = Str("a")

\* ------------------------------------------------------------------------ C5
\* nothing on filesystem f stands in the way of writing a file at path q: no
\* ancestor of q is a regular file and q is no directory
Writable(f, q) == ~FileAncestor(f, q) /\ ~IsFile(f, Parent(q)) /\ ~IsDir(f, q)

\* C5: a run of generate_claude_md with a valid type, on a filesystem where
\* PATH can be written, returns, and the file at PATH then holds exactly
\* TEMPLATES[type], whatever it held before; and whenever such a run returns
\* the file holds exactly that.
C5_FileIsTemplate ==
    \A p \in Procs :
        (IsGen(p) /\ ValidType(p) /\ hist[p].alone /\ Ended(p))
        => /\ Writable(hist[p].fs0, args[p].out) => pc[p] = "done"
           /\ pc[p] = "done" =>
                 TextOf(hist[p].fs1, args[p].out) = DictGet(TemplatesInit, args[p].type)

\* a file with other, longer text was at PATH and has been replaced
C5_Witness ==
    \E p \in Procs :
        /\ IsGen(p) /\ pc[p] = "done" /\ hist[p].alone
        /\ args[p].type = "library"
        /\ TextOf(hist[p].fs0, args[p].out) = OldText
        /\ TextOf(hist[p].fs1, args[p].out) =
              << <<"# Claude Code Configuration - Library Project">>, <<"body:library">> >>

\* ------------------------------------------------------------------------ C6
\* C6: the three registries always equal their initial values.
C6_RegistriesConstant ==
    /\ SUBAGENT_TEMPLATES = SubagentTemplatesInit
    /\ AUTONOMY_DESCRIPTIONS = AutonomyDescriptionsInit
    /\ TEMPLATES = TemplatesInit

\* a later invocation of the same type has run after one that set a name
C6_Witness ==
    \E q \in Procs :
        /\ IsCs(q) /\ pc[q] = "done"
        /\ hist[q].prev.script = "create_subagent" /\ hist[q].prev.ok
        /\ hist[q].prev.args.type = args[q].type
        /\ DictGet(template[q].d, "name") = Str(args[q].name)
        /\ DictGet(DictGet(SUBAGENT_TEMPLATES, args[q].type), "name") = Str("{agent_name}")

\* ------------------------------------------------------------------------ C7
\* C7: every record of SUBAGENT_TEMPLATES has a non-empty tools list and an
\* autonomy that is a key of AUTONOMY_DESCRIPTIONS, and no invocation ends
\* with the KeyError of a failed autonomy lookup.
C7_RegistryWellFormed ==
    /\ \A i \in 1..Len(SUBAGENT_TEMPLATES) :
          LET r == SUBAGENT_TEMPLATES[i][2]
          IN /\ DictHas(r, "tools") /\ DictGet(r, "tools").type = "list"
             /\ Len(DictGet(r, "tools").l) > 0
             /\ DictHas(r, "autonomy")
             /\ DictHas(AUTONOMY_DESCRIPTIONS, DictGet(r, "autonomy").s)
    /\ SeqToSet(DictKeys(SUBAGENT_TEMPLATES)) = AgentTypeKeys
    /\ \A p \in Procs : err[p].type # "KeyError"

\* rendering has looked up both autonomy values in use
C7_Witness ==
    \E p, q \in Procs :
        /\ IsCs(p) /\ IsCs(q) /\ pc[p] = "done" /\ pc[q] = "done"
        /\ DictGet(template[p].d, "autonomy").s = "medium"
        /\ DictGet(template[q].d, "autonomy").s = "high"

\* ------------------------------------------------------------------------ C8
\* the directory an invocation makes, and the files it writes
TargetDir(p) == IF IsCs(p) THEN AgentsDir(args[p].out) ELSE Parent(args[p].out)

TargetFiles(p) ==
    IF IsCs(p) THEN {AgentFile(args[p]), JsonFile(args[p])} ELSE {args[p].out}

Prefixes(d) == {SubSeq(d, 1, i) : i \in 1..Len(d)}

\* the directory chain of the output location does not exist at any depth
ChainAbsent(f, p) ==
    LET d == IF IsCs(p) THEN args[p].out ELSE Parent(args[p].out)
    IN /\ d # <<>>
       /\ \A q \in Prefixes(d) : ~IsDir(f, q) /\ ~IsFile(f, q)

\* the directories the invocation would make already exist
DirsExist(f, p) == IsDir(f, TargetDir(p))

\* the invocation made every directory, wrote its files and returned
Succeeded(p) ==
    /\ pc[p] = "done"
    /\ Prefixes(TargetDir(p)) \subseteq hist[p].fs1.dirs
    /\ TargetFiles(p) \subseteq DOMAIN hist[p].fs1.files
    /\ hist[p].fs0.dirs \subseteq hist[p].fs1.dirs

\* C8 as stated: with a valid type, an invocation of either script succeeds
\* when the directory chain of its output location does not exist at any
\* depth, and when the directories already exist.  It fails for an agent_name
\* that holds a path separator.
C8_AsStated ==
    \A p \in Procs :
        (Ended(p) /\ hist[p].alone /\ ValidType(p)
            /\ (ChainAbsent(hist[p].fs0, p) \/ DirsExist(hist[p].fs0, p)))
        => Succeeded(p)

\* the agent_name is one path segment
PlainName(p) == IsCs(p) => Len(NameParts(args[p].name)) = 1

\* C8, amended: the same for an agent_name that holds no path separator and,
\* where the directories already exist, no directory at the path of an output
\* file.
C8_DirectoriesCreated ==
    \A p \in Procs :
        (Ended(p) /\ hist[p].alone /\ ValidType(p) /\ PlainName(p)
            /\ \/ ChainAbsent(hist[p].fs0, p)
               \/ /\ DirsExist(hist[p].fs0, p)
                  /\ \A q \in TargetFiles(p) : ~IsDir(hist[p].fs0, q))
        => Succeeded(p)

\* create_subagent made the whole chain o/p/.claude/agents on an empty
\* filesystem, and generate_claude_md then wrote into the existing o/p
C8_Witness ==
    \E q \in Procs :
        /\ IsGen(q) /\ hist[q].alone /\ Succeeded(q)
        /\ args[q].out = NestedPath /\ DirsExist(hist[q].fs0, q)
        /\ hist[q].prev.script = "create_subagent"
        /\ hist[q].prev.ok /\ hist[q].prev.alone
        /\ hist[q].fs0.dirs = Prefixes(AgentsDir(NestedDir))
        /\ DOMAIN hist[q].fs0.files =
              {AgentFile(hist[q].prev.args), JsonFile(hist[q].prev.args)}

\* ------------------------------------------------------------------------ C9
\* a mkdir call that found its directory counts as a mkdir call
Calls(log) == [i \in 1..Len(log) |-> IF log[i] = "mkdir_noop" THEN "mkdir" ELSE log[i]]

IsPrefix(a, b) == Len(a) <= Len(b) /\ SubSeq(b, 1, Len(a)) = a

\* the phase of an event: validation, rendering, emitting, status
Phase(e) ==
    CASE e = "validate" -> 1
      [] e = "render" -> 2
      [] e \in {"mkdir", "open", "write"} -> 3
      [] e = "print" -> 4
      [] OTHER -> 0

\* the events that are of a phase: a mkdir call that made nothing is left out
Phased(log) == SelectSeq(log, LAMBDA e : Phase(e) > 0)

\* C9 as stated: the events of every invocation come in the order validate,
\* render, filesystem mutation, print.  create_subagent makes its directories
\* before it renders, and renders the JSON after it wrote the .md.
C9_AsStated ==
    \A p \in Procs :
        LET l == Phased(hist[p].log)
        IN \A i, j \in 1..Len(l) : i < j => Phase(l[i]) <= Phase(l[j])

CsOrder == <<"validate", "mkdir", "mkdir", "render", "open", "write",
             "render", "open", "write", "print">>

GenOrder == <<"validate", "render", "mkdir", "open", "write", "print">>

\* C9, amended: every invocation is one linear pass, a prefix of
\*   generate_claude_md: validate, render, mkdir, write, print
\*   create_subagent:    validate, mkdir, mkdir, render, write (.md),
\*                       render (JSON), write (.json), print
\* so nothing touches the filesystem before the type is validated, each text
\* is rendered before it is written, and the status is printed only by an
\* invocation that has written every output file and returns.
C9_LinearPass ==
    \A p \in Procs :
        /\ IsCs(p) => IsPrefix(Calls(hist[p].log), CsOrder)
        /\ IsGen(p) => IsPrefix(Calls(hist[p].log), GenOrder)
        /\ stdout[p] # <<>> =>
              /\ pc[p] = "done"
              /\ TargetFiles(p) \subseteq DOMAIN fs.files
              /\ hist[p].alone => TargetFiles(p) \subseteq DOMAIN hist[p].fs1.files
              /\ Calls(hist[p].log) = (IF IsCs(p) THEN CsOrder ELSE GenOrder)
        /\ pc[p] = "done" => stdout[p] # <<>>

\* both scripts have run their whole pass, create_subagent making directories
C9_Witness ==
    \E p, q \in Procs :
        /\ IsCs(p) /\ IsGen(q)
        /\ pc[p] = "done" /\ pc[q] = "done"
        /\ hist[p].log = <<"validate", "mkdir", "mkdir", "render", "open", "write",
                           "render", "open", "write", "print">>
        /\ Calls(hist[q].log) = GenOrder
        /\ stdout[p] # <<>> /\ stdout[q] # <<>>

\* ----------------------------------------------------------------------- C10
\* two completed runs of create_subagent on the same files with different
\* valid types
SameTarget(a, b) ==
    /\ a.name = b.name /\ a.out = b.out
    /\ a.type # b.type
    /\ a.type \in AgentTypeKeys /\ b.type \in AgentTypeKeys

\* q ran after such a run had ended, and no other invocation ran meanwhile
RanAfter(q) ==
    /\ IsCs(q) /\ pc[q] = "done" /\ hist[q].alone
    /\ hist[q].prev.script = "create_subagent" /\ hist[q].prev.ok
    /\ SameTarget(hist[q].prev.args, args[q])

\* C10: when two such invocations ran one after the other, both files on disk
\* come from the record of the one that ran last.  (Run concurrently, they
\* can leave the .md of one and the .json of the other: C10_Witness.)
C10_LastRunWins ==
    \A q \in Procs :
        RanAfter(q)
        => /\ TextOf(hist[q].fs1, AgentFile(args[q])) = ExpectedMd(args[q])
           /\ TextOf(hist[q].fs1, JsonFile(args[q])) = ExpectedJson(args[q])
           /\ json_loads(TextOf(hist[q].fs1, JsonFile(args[q]))) = ExpectedTemplate(args[q])

\* after two concurrent runs: the .md of one type, the .json of the other
C10_Witness ==
    \E p, q \in Procs :
        /\ p # q /\ IsCs(p) /\ IsCs(q)
        /\ pc[p] = "done" /\ pc[q] = "done"
        /\ SameTarget(args[p], args[q])
        /\ ~hist[p].alone /\ ~hist[q].alone
        /\ TextOf(fs, AgentFile(args[p])) = ExpectedMd(args[q])
        /\ TextOf(fs, JsonFile(args[p])) = ExpectedJson(args[p])

====
